---- MODULE Spec2Model ----
(***************************************************************************)
(* Model of the HPC Monte Carlo option pricer (src/main.cpp):              *)
(*   - calculate_historical_volatility  (Module 2, lines 57-70)            *)
(*   - monte_carlo_pricer               (Module 3, lines 73-108)           *)
(*                                                                         *)
(* Numbers.  A C++ double is modelled as a small binary floating-point     *)
(* number: an integer count of quanta of 1/SCALE (SCALE a power of two, so *)
(* small integers are exact), kept to MantBits significant bits with       *)
(* round-to-nearest-even, plus the two non-finite values NaN and Inf.      *)
(* Every arithmetic operator of the source is translated to the rounded    *)
(* operator (FAdd, FMul, ...), so addition is commutative but not          *)
(* associative, as in IEEE-754.  `int` and `unsigned int` keep their       *)
(* wrap-around, at IntBits bits instead of 32.                             *)
(***************************************************************************)
EXTENDS Integers, Sequences, FiniteSets, TLC

\* ------------------------------------------------------------ bounds
MantBits == 3       \* significant bits of the model's double
IntBits == 4        \* width of int / unsigned int in the model
MaxTrials == 3      \* largest number of trials a run executes
MaxThreads == 3     \* largest OpenMP team
MaxClock == 1       \* clock ticks observed while the team starts
MaxLen == 4         \* longest price history
ExpArgMax == 32     \* std::exp overflows to Inf above ExpArgMax / SCALE

\* ------------------------------------------------------------ doubles
SCALE == 8          \* quanta per unit: 1.0 is SCALE, 0.125 is 1
NaN == 999983       \* not-a-number
Inf == 999979       \* +infinity (x / 0 with x > 0, exp overflow)

IsFinite(x) == x # NaN /\ x # Inf

Abs(n) == IF n < 0 THEN -n ELSE n

RECURSIVE Pow2(_)
Pow2(n) == IF n <= 0 THEN 1 ELSE 2 * Pow2(n - 1)

RECURSIVE BitLen(_)
BitLen(n) == IF n <= 0 THEN 0 ELSE 1 + BitLen(n \div 2)

\* Round the integer n to MantBits significant bits, ties to even.
Round(n) ==
    LET m == Abs(n)
        s == IF n < 0 THEN -1 ELSE 1
        e == BitLen(m) - MantBits
        q == Pow2(e)
        k == m \div q
        rem == m - k * q
        up == \/ 2 * rem > q
              \/ 2 * rem = q /\ k % 2 = 1
    IN  IF e <= 0 THEN n ELSE s * (IF up THEN (k + 1) * q ELSE k * q)

\* x / y (y # 0) to the nearest integer, ties to even.
RoundDiv(x, y) ==
    LET s == IF (x < 0) # (y < 0) THEN -1 ELSE 1
        a == Abs(x)
        b == Abs(y)
        k == a \div b
        rem == a - k * b
        up == \/ 2 * rem > b
              \/ 2 * rem = b /\ k % 2 = 1
    IN  s * (IF up THEN k + 1 ELSE k)

FAdd(a, b) == IF a = NaN \/ b = NaN THEN NaN
              ELSE IF a = Inf \/ b = Inf THEN Inf
              ELSE Round(a + b)

FSub(a, b) == IF a = NaN \/ b = NaN THEN NaN
              ELSE IF b = Inf THEN NaN
              ELSE IF a = Inf THEN Inf
              ELSE Round(a - b)

FMul(a, b) == IF a = NaN \/ b = NaN THEN NaN
              ELSE IF a = Inf \/ b = Inf
                   THEN (IF a = 0 \/ b = 0 THEN NaN ELSE Inf)
              ELSE Round(RoundDiv(a * b, SCALE))

FDiv(a, b) == IF a = NaN \/ b = NaN THEN NaN
              ELSE IF a = Inf THEN (IF b = Inf THEN NaN ELSE Inf)
              ELSE IF b = Inf THEN 0
              ELSE IF b = 0 THEN (IF a = 0 THEN NaN ELSE Inf)
              ELSE Round(RoundDiv(a * SCALE, b))

\* std::sqrt: NaN below zero, otherwise the nearest root.
FSqrt(a) ==
    IF a = NaN THEN NaN
    ELSE IF a = Inf THEN Inf
    ELSE IF a < 0 THEN NaN
    ELSE LET t == a * SCALE
             f == CHOOSE y \in 0..(t + 1) : y * y <= t /\ (y + 1) * (y + 1) > t
         IN  Round(IF t - f * f > (f + 1) * (f + 1) - t THEN f + 1 ELSE f)

\* std::max(a, b) is (a < b) ? b : a, so a NaN first argument is returned.
FMax(a, b) == IF a = NaN THEN NaN
              ELSE IF b = NaN THEN a
              ELSE IF a = Inf THEN Inf
              ELSE IF b = Inf THEN Inf
              ELSE IF a < b THEN b ELSE a

\* e^(k/SCALE) in thousandths, k >= 0: k-fold product of e^0.125 = 1.133.
RECURSIVE ExpMilli(_)
ExpMilli(k) == IF k <= 0 THEN 1000 ELSE (ExpMilli(k - 1) * 1133) \div 1000


\* std::exp on the model's grid.
FExp(x) ==
    IF x = NaN THEN NaN
    ELSE IF x = Inf THEN Inf
    ELSE IF x > ExpArgMax THEN Inf
    ELSE IF x < -ExpArgMax THEN 0
    ELSE IF x >= 0 THEN Round(RoundDiv(ExpMilli(x) * SCALE, 1000))
    ELSE Round(RoundDiv(1000 * SCALE, ExpMilli(-x)))

\* std::log on the model's grid: the largest y whose exp does not exceed x.
FLog(x) ==
    IF x = NaN THEN NaN
    ELSE IF x = Inf THEN Inf
    ELSE IF x <= 0 THEN NaN
    ELSE LET ys == {y \in (-ExpArgMax)..ExpArgMax : FExp(y) <= x}
         IN  IF ys = {} THEN -ExpArgMax
             ELSE CHOOSE y \in ys : \A z \in ys : z <= y

\* int -> double and size_t -> double conversions.
ToDouble(n) == Round(n * SCALE)

\* ------------------------------------------------------------ integers
\* Conversion to int: two's complement at IntBits bits.
ToInt(n) ==
    LET m == n % Pow2(IntBits)
    IN  IF m >= Pow2(IntBits - 1) THEN m - Pow2(IntBits) ELSE m

\* Conversion to unsigned int.
ToUnsigned(n) == n % Pow2(IntBits)


\* ------------------------------------------------------------ state
VARIABLES
    prices,          \* calculate_historical_volatility: the argument
    vpc,             \* its position: "entry", "return58" or "return69"
    log_returns,     \* its local vector log_returns at the return
    vol,             \* its return value
    pc,              \* monte_carlo_pricer: position of the calling thread
    requested,       \* the sample count the caller asks for
    S0, K, r, sigma, T, N,                  \* the parameters (N is an int)
    drift, vol_sqrt_T, discount_factor,     \* lines 78-80
    sum_payoffs, sum_sq_payoffs, sum_ST,    \* lines 74-76, reduction targets
    nthreads,        \* size of the team of the parallel region
    now,             \* system_clock::now().time_since_epoch().count()
    wpc,             \* per thread: "seed", "loop", "barrier", "joined"
    seed,            \* per thread: line 84
    generator,       \* per thread: state of the mt19937, line 85
    i,               \* per thread: loop variable of line 89
    p_payoffs, p_sq_payoffs, p_ST,          \* per thread: private copies
    result,          \* the SimulationResult returned
    prev             \* the previous completed call: inputs, seeds, result

volvars == <<prices, vpc, log_returns, vol>>
params == <<requested, S0, K, r, sigma, T, N, drift, vol_sqrt_T, discount_factor>>
totals == <<sum_payoffs, sum_sq_payoffs, sum_ST>>
privates == <<p_payoffs, p_sq_payoffs, p_ST>>
team == <<nthreads, wpc, seed, generator, i, privates>>
vars == <<volvars, pc, params, totals, team, now, result, prev>>

\* ------------------------------------------------------------ Module 2
Prices == {ToDouble(1), ToDouble(2), ToDouble(100)}

RECURSIVE SeqsUpTo(_)
SeqsUpTo(n) ==
    IF n = 0 THEN {<<>>}
    ELSE LET shorter == SeqsUpTo(n - 1)
         IN  shorter \cup {Append(s, p) : s \in {t \in shorter : Len(t) = n - 1},
                                           p \in Prices}

\* line 58: return 0.20 (the nearest number of the grid)
FallbackVolatility == RoundDiv(2 * SCALE, 10)

\* mutant: the test of line 58 off by one
TooFewPrices_OffByOne(ps) == Len(ps) < 1

\* line 58: prices.size() < 2
TooFewPrices(ps) == Len(ps) < 2

\* lines 59-65: the vector log_returns
LogReturns(ps) ==
    [k \in 1..(Len(ps) - 1) |-> FLog(FDiv(ps[k + 1], ps[k]))]

\* lines 60-65: sum += u_i, in index order
RECURSIVE SumOf(_, _)
SumOf(us, n) == IF n = 0 THEN 0 ELSE FAdd(SumOf(us, n - 1), us[n])

\* lines 67-68: sq_sum += (u - mean) * (u - mean), in index order
RECURSIVE SqSumOf(_, _, _)
SqSumOf(us, mean, n) ==
    IF n = 0 THEN 0
    ELSE FAdd(SqSumOf(us, mean, n - 1),
              FMul(FSub(us[n], mean), FSub(us[n], mean)))

\* line 69: sq_sum / (log_returns.size() - 1)
SampleVariance(sq_sum, count) == FDiv(sq_sum, ToDouble(count - 1))

\* lines 57-70
calculate_historical_volatility(ps) ==
    IF TooFewPrices(ps) THEN FallbackVolatility
    ELSE LET us == LogReturns(ps)
             sum == SumOf(us, Len(us))
             mean == FDiv(sum, ToDouble(Len(us)))
             sq_sum == SqSumOf(us, mean, Len(us))
         IN  FMul(FSqrt(SampleVariance(sq_sum, Len(us))), FSqrt(ToDouble(252)))

\* One call of the estimator.
EstimateVolatility ==
    /\ vpc = "entry"
    /\ vol' = calculate_historical_volatility(prices)
    /\ log_returns' = IF TooFewPrices(prices) THEN <<>> ELSE LogReturns(prices)
    /\ vpc' = IF TooFewPrices(prices) THEN "return58" ELSE "return69"
    /\ UNCHANGED <<prices, pc, params, totals, team, now, result, prev>>

\* ------------------------------------------------------------ Module 3
ZeroResult == [price |-> 0, std_error |-> 0, avg_final_price |-> 0]
NoPrev == [has |-> FALSE, inputs |-> <<>>, nthreads |-> 0, seed |-> <<>>,
           result |-> ZeroResult]

Threads == 0..(nthreads - 1)

\* 0.5 in line 78
Half == SCALE \div 2

\* lines 73-80: entry, the three totals and the three run constants
Call(s0, k, rr, sg, t, rq) ==
    /\ pc = "idle"
    /\ requested' = rq
    /\ S0' = s0 /\ K' = k /\ r' = rr /\ sigma' = sg /\ T' = t
    /\ N' = ToInt(rq)
    /\ sum_payoffs' = 0 /\ sum_sq_payoffs' = 0 /\ sum_ST' = 0
    /\ drift' = FMul(FSub(rr, FMul(FMul(Half, sg), sg)), t)
    /\ vol_sqrt_T' = FMul(sg, FSqrt(t))
    /\ discount_factor' = FExp(FMul(-rr, t))
    /\ pc' = "entry"
    /\ UNCHANGED <<volvars, team, now, result, prev>>

\* line 82: the parallel region starts with a team of nt threads, each
\* with private copies of the reduction variables initialised to 0
Fork(nt) ==
    /\ pc = "entry"
    /\ nthreads' = nt
    /\ wpc' = [w \in 0..(nt - 1) |-> "seed"]
    /\ seed' = [w \in 0..(nt - 1) |-> 0]
    /\ generator' = [w \in 0..(nt - 1) |-> 0]
    /\ i' = [w \in 0..(nt - 1) |-> 0]
    /\ p_payoffs' = [w \in 0..(nt - 1) |-> 0]
    /\ p_sq_payoffs' = [w \in 0..(nt - 1) |-> 0]
    /\ p_ST' = [w \in 0..(nt - 1) |-> 0]
    /\ pc' = "parallel"
    /\ UNCHANGED <<volvars, params, totals, now, result, prev>>

\* The system clock advances while threads of the team are still starting.
Tick ==
    /\ pc = "parallel"
    /\ \E w \in Threads : wpc[w] = "seed"
    /\ now < MaxClock
    /\ now' = now + 1
    /\ UNCHANGED <<volvars, pc, params, totals, team, result, prev>>

\* line 88, #pragma omp for with the default (static) schedule: the
\* iterations 0..N-1 are dealt in contiguous blocks, the first N % nthreads
\* threads getting one more.
TripCount == IF N > 0 THEN N ELSE 0

\* mutant: the remainder N % nthreads is not dealt out
ChunkLo_NoRemainder(w) == w * (TripCount \div nthreads)

ChunkLo(w) ==
    LET q == TripCount \div nthreads
        t == TripCount % nthreads
    IN  IF w < t THEN w * (q + 1) ELSE w * q + t

ChunkHi(w) ==
    LET q == TripCount \div nthreads
        t == TripCount % nthreads
    IN  ChunkLo(w) + (IF w < t THEN q + 1 ELSE q)

\* line 84: the seed of thread w when the clock reads t
SeedOf(t, w) == ToUnsigned(t + w)

\* lines 84-86: the thread seeds its own generator and enters the loop
SeedWorker(w) ==
    /\ pc = "parallel"
    /\ wpc[w] = "seed"
    /\ seed' = [seed EXCEPT ![w] = SeedOf(now, w)]
    /\ generator' = [generator EXCEPT ![w] = SeedOf(now, w)]
    /\ i' = [i EXCEPT ![w] = ChunkLo(w)]
    /\ wpc' = [wpc EXCEPT ![w] = "loop"]
    /\ UNCHANGED <<volvars, pc, params, totals, nthreads, privates, now,
                   result, prev>>

\* std::mt19937: the state after one more draw
NextGen(g) == (5 * g + 3) % Pow2(IntBits)

\* std::normal_distribution<double>(0.0, 1.0): the variate of a state
Normal(g) == ToDouble((g % 3) - 1)

\* mutant: the variate is not scaled by sigma * sqrt(T)
TerminalPrice_Unscaled(Z) == FMul(S0, FExp(FAdd(drift, Z)))

\* line 92
TerminalPrice(Z) == FMul(S0, FExp(FAdd(drift, FMul(vol_sqrt_T, Z))))

\* line 95
Payoff(S_T) == FMax(FSub(S_T, K), 0)

\* lines 89-99: one iteration of the loop by thread w
Trial(w) ==
    /\ pc = "parallel"
    /\ wpc[w] = "loop"
    /\ i[w] < ChunkHi(w)
    /\ LET g == NextGen(generator[w])
           Z == Normal(g)
           S_T == TerminalPrice(Z)
           payoff == Payoff(S_T)
       IN  /\ generator' = [generator EXCEPT ![w] = g]
           /\ p_payoffs' = [p_payoffs EXCEPT ![w] = FAdd(@, payoff)]
           /\ p_sq_payoffs' = [p_sq_payoffs EXCEPT ![w] = FAdd(@, FMul(payoff, payoff))]
           /\ p_ST' = [p_ST EXCEPT ![w] = FAdd(@, S_T)]
    /\ i' = [i EXCEPT ![w] = @ + 1]
    /\ UNCHANGED <<volvars, pc, params, totals, nthreads, wpc, seed, now,
                   result, prev>>

\* line 100: the thread has no iteration left and waits at the implicit
\* barrier that ends the omp for
LoopExit(w) ==
    /\ pc = "parallel"
    /\ wpc[w] = "loop"
    /\ i[w] >= ChunkHi(w)
    /\ wpc' = [wpc EXCEPT ![w] = "barrier"]
    /\ UNCHANGED <<volvars, pc, params, totals, nthreads, seed, generator, i,
                   privates, now, result, prev>>

\* the implicit barrier of line 100
LoopBarrierPassed == \A v \in Threads : wpc[v] \in {"barrier", "joined"}

\* mutant: the private copy overwrites the original
Combine_Overwrite(original, private) == private

\* reduction(+: ...): original = original + private copy
Combine(original, private) == FAdd(original, private)

\* lines 82, 101: past the barrier the thread adds its private copies to
\* the original variables, in the order the threads arrive
Reduce(w) ==
    /\ pc = "parallel"
    /\ wpc[w] = "barrier"
    /\ LoopBarrierPassed
    /\ sum_payoffs' = Combine(sum_payoffs, p_payoffs[w])
    /\ sum_sq_payoffs' = Combine(sum_sq_payoffs, p_sq_payoffs[w])
    /\ sum_ST' = Combine(sum_ST, p_ST[w])
    /\ wpc' = [wpc EXCEPT ![w] = "joined"]
    /\ UNCHANGED <<volvars, pc, params, nthreads, seed, generator, i,
                   privates, now, result, prev>>

\* mutant: the calling thread does not wait for the team
RegionDone_NoWait == TRUE

\* line 101: the barrier that ends the parallel region
RegionDone == \A v \in Threads : wpc[v] = "joined"

Join ==
    /\ pc = "parallel"
    /\ RegionDone
    /\ pc' = "stats"
    /\ UNCHANGED <<volvars, params, totals, team, now, result, prev>>

\* lines 103-107
Statistics(sp, ssq, sst) ==
    LET mean_payoff == FDiv(sp, ToDouble(N))
        variance == FSub(FDiv(ssq, ToDouble(N)), FMul(mean_payoff, mean_payoff))
        std_error == FMul(FDiv(FSqrt(variance), FSqrt(ToDouble(N))), discount_factor)
    IN  [price |-> FMul(mean_payoff, discount_factor),
         std_error |-> std_error,
         avg_final_price |-> FDiv(sst, ToDouble(N))]

Stats ==
    /\ pc = "stats"
    /\ result' = Statistics(sum_payoffs, sum_sq_payoffs, sum_ST)
    /\ pc' = "done"
    /\ UNCHANGED <<volvars, params, totals, team, now, prev>>

\* The caller keeps the result and calls the engine again (the clock has
\* moved on; truncated to unsigned it may read the same values again).
Inputs == <<requested, S0, K, r, sigma, T>>

Return ==
    /\ pc = "done"
    /\ ~prev.has
    /\ prev' = [has |-> TRUE, inputs |-> Inputs, nthreads |-> nthreads,
                seed |-> seed, result |-> result]
    /\ pc' = "idle"
    /\ now' = 0
    /\ UNCHANGED <<volvars, params, totals, team, result>>

\* ------------------------------------------------------------ inputs
Spots == {0, 2, SCALE}
Strikes == {2}
Rates == {0, SCALE}
Volatilities == {0, SCALE}
Maturities == {0, SCALE}
Requests == (0..MaxTrials) \cup {Pow2(IntBits - 1), Pow2(IntBits) + 1}

InitVol ==
    /\ vpc = "entry" /\ log_returns = <<>> /\ vol = 0

InitEngine ==
    /\ pc = "idle"
    /\ requested = 0 /\ S0 = 0 /\ K = 0 /\ r = 0 /\ sigma = 0 /\ T = 0 /\ N = 0
    /\ drift = 0 /\ vol_sqrt_T = 0 /\ discount_factor = 0
    /\ sum_payoffs = 0 /\ sum_sq_payoffs = 0 /\ sum_ST = 0
    /\ nthreads = 0 /\ now = 0
    /\ wpc = <<>> /\ seed = <<>> /\ generator = <<>> /\ i = <<>>
    /\ p_payoffs = <<>> /\ p_sq_payoffs = <<>> /\ p_ST = <<>>
    /\ result = ZeroResult
    /\ prev = NoPrev

\* The engine, one call.
Init == InitVol /\ prices = <<>> /\ InitEngine

Next ==
    \/ \E s0 \in Spots, k \in Strikes, rr \in Rates, sg \in Volatilities,
          t \in Maturities, rq \in Requests : Call(s0, k, rr, sg, t, rq)
    \/ \E nt \in 1..MaxThreads : Fork(nt)
    \/ Tick
    \/ \E w \in Threads : SeedWorker(w)
    \/ \E w \in Threads : Trial(w)
    \/ \E w \in Threads : LoopExit(w)
    \/ \E w \in Threads : Reduce(w)
    \/ Join
    \/ Stats

Spec == Init /\ [][Next]_vars

\* The estimator, applied to every price history up to MaxLen.
VolInit == InitVol /\ prices \in SeqsUpTo(MaxLen) /\ InitEngine

VolNext == EstimateVolatility

VolSpec == VolInit /\ [][VolNext]_vars

\* Two calls with the same parameters and the same team size.
TwoRunCall ==
    \E s0 \in Spots \ {0}, k \in Strikes, rr \in Rates, sg \in Volatilities,
       rq \in 1..MaxTrials :
        /\ prev.has => <<rq, s0, k, rr, sg, SCALE>> = prev.inputs
        /\ Call(s0, k, rr, sg, SCALE, rq)

TwoRunFork ==
    \E nt \in 1..MaxThreads :
        /\ prev.has => nt = prev.nthreads
        /\ Fork(nt)

TwoRunNext ==
    \/ TwoRunCall
    \/ TwoRunFork
    \/ Tick
    \/ \E w \in Threads : SeedWorker(w)
    \/ \E w \in Threads : Trial(w)
    \/ \E w \in Threads : LoopExit(w)
    \/ \E w \in Threads : Reduce(w)
    \/ Join
    \/ Stats
    \/ Return

TwoRunSpec == Init /\ [][TwoRunNext]_vars

\* ------------------------------------------------------------ claims
Seeded == {w \in Threads : wpc[w] # "seed"}

\* C1: within one run no two workers seed their generator with the same
\* value, whatever the clock reads when each of them starts.
C1_DistinctSeeds ==
    \A a \in Seeded, b \in Seeded : a # b => seed[a] # seed[b]

InvalidParameter == requested = 0 \/ T <= 0 \/ S0 <= 0

\* C2: a call with sampleCount = 0, a non-positive maturity or a
\* non-positive spot is rejected before the parallel region: it never has a
\* team, never reaches the statistics and never returns a result.
C2_InvalidRejected ==
    (pc # "idle" /\ InvalidParameter) => pc \notin {"parallel", "stats", "done"}

RECURSIVE TrialsRun(_)
TrialsRun(n) ==
    IF n = 0 THEN 0 ELSE TrialsRun(n - 1) + (i[n - 1] - ChunkLo(n - 1))

\* C8: every requested sample count, also above the largest int, is held
\* by the parameter without wrap-around, the loop runs that many trials and
\* the statistics divide by it.
C8_CountRepresented ==
    pc = "done" => N = requested /\ TrialsRun(nthreads) = requested

\* C4: two runs with the same parameters, the same team size and the same
\* per-worker seeds return identical results.
C4_Deterministic ==
    (pc = "done" /\ prev.has /\ prev.inputs = Inputs
        /\ prev.nthreads = nthreads /\ prev.seed = seed)
    => result = prev.result

\* C5: on two equal positive prices the estimator returns 0.
C5_TwoEqualPricesZero ==
    (vpc # "entry" /\ Len(prices) = 2 /\ prices[1] = prices[2]) => vol = 0


\* C6: a history of length 0 or 1 returns the fallback 0.20 through line 58
\* with no log-return computed; a history of length >= 2 returns through
\* line 69 with one log-return per consecutive pair.
C6_FallbackIffShort ==
    vpc # "entry" =>
        /\ Len(prices) < 2 =>
              vpc = "return58" /\ vol = FallbackVolatility /\ log_returns = <<>>
        /\ Len(prices) >= 2 =>
              vpc = "return69" /\ Len(log_returns) = Len(prices) - 1

C6_Witness == vpc = "return58" /\ Len(prices) = 1 /\ vol = FallbackVolatility

\* The trial indices thread w has sampled so far.
Executed(w) == IF wpc[w] = "seed" THEN {} ELSE ChunkLo(w)..(i[w] - 1)

\* C3: for N > 0 and any team size no trial index is ever sampled by two
\* workers, and a run that reaches the statistics has sampled every index
\* 0..N-1, N payoff terms in all.
C3_EveryTrialOnce ==
    /\ \A a \in Threads, b \in Threads :
          a # b => Executed(a) \cap Executed(b) = {}
    /\ (pc \in {"stats", "done"} /\ N > 0) =>
          /\ UNION {Executed(w) : w \in Threads} = 0..(N - 1)
          /\ TrialsRun(nthreads) = N

C3_Witness ==
    /\ pc = "done" /\ N = 3 /\ nthreads = 2
    /\ Executed(0) = {0, 1} /\ Executed(1) = {2}

\* Every variate a generator state can yield.
Variates == {Normal(g) : g \in 0..(Pow2(IntBits) - 1)}

\* spot * exp(riskFreeRate * maturity)
RisklessTerminal == FMul(S0, FExp(FMul(r, T)))

\* n-fold v + v + ... + v, as the loop of lines 89-100 accumulates it
RECURSIVE RepeatAdd(_, _)
RepeatAdd(v, n) == IF n <= 0 THEN 0 ELSE FAdd(RepeatAdd(v, n - 1), v)

ValidRun == pc # "idle" /\ ~InvalidParameter /\ N = requested

\* C7 as stated: with volatility 0 the returned average terminal price is
\* spot * exp(r * T) exactly, for every sample count and team size.
C7_ExactAverage ==
    (pc = "done" /\ ValidRun /\ sigma = 0) =>
        result.avg_final_price = RisklessTerminal

\* no multiple k * v, k <= n, is rounded
SumsExact(v, n) == \A k \in 1..n : Round(k * v) = k * v

\* C7 as amended: with volatility 0 every trial's terminal price is
\* spot * exp(r * T) whatever the variate, each worker's sum is that value
\* added once per trial, and the returned average equals it whenever no
\* running sum of the terminal prices is rounded.
C7_RisklessAverage ==
    (ValidRun /\ sigma = 0) =>
        /\ \A Z \in Variates : TerminalPrice(Z) = RisklessTerminal
        /\ \A w \in Seeded :
              p_ST[w] = RepeatAdd(RisklessTerminal, i[w] - ChunkLo(w))
        /\ (pc = "done" /\ SumsExact(RisklessTerminal, N)) =>
              result.avg_final_price = RisklessTerminal

C7_Witness ==
    /\ pc = "done" /\ ValidRun /\ sigma = 0 /\ N >= 2 /\ nthreads >= 2
    /\ r # 0
    /\ SumsExact(RisklessTerminal, N)
    /\ result.avg_final_price = RisklessTerminal

\* C9, the state part: the statistics stage and the return come only after
\* every worker has run all its trials and added its sums.
C9_AfterAllWorkers ==
    pc \in {"stats", "done"} =>
        \A w \in Threads : wpc[w] = "joined" /\ i[w] = ChunkHi(w)

\* C9, the step part: a worker's private sums change only in a step of its
\* own loop; the totals change only when one worker passes from the barrier
\* to joined, by that worker's private sums; a joined worker stays joined.
C9_OwnSumsOnce ==
    (pc = "parallel" /\ pc' # "idle") =>
        \A w \in Threads :
            /\ <<p_payoffs[w], p_sq_payoffs[w], p_ST[w]>>'
                  # <<p_payoffs[w], p_sq_payoffs[w], p_ST[w]>>
               => /\ wpc[w] = "loop" /\ wpc'[w] = "loop" /\ i'[w] = i[w] + 1
                  /\ \A v \in Threads \ {w} :
                        /\ i'[v] = i[v]
                        /\ <<p_payoffs[v], p_sq_payoffs[v], p_ST[v]>>'
                              = <<p_payoffs[v], p_sq_payoffs[v], p_ST[v]>>
            /\ (wpc[w] = "barrier" /\ wpc'[w] = "joined")
               => /\ totals' = <<FAdd(sum_payoffs, p_payoffs[w]),
                                 FAdd(sum_sq_payoffs, p_sq_payoffs[w]),
                                 FAdd(sum_ST, p_ST[w])>>
                  /\ \A v \in Threads \ {w} : wpc'[v] = wpc[v]
            /\ wpc[w] = "joined" => wpc'[w] = "joined"
            /\ totals' # totals =>
                  \E v \in Threads : wpc[v] = "barrier" /\ wpc'[v] = "joined"

\* C9: in every interleaving each worker's partial sums are written only by
\* that worker, are added to the totals exactly once, and the statistics
\* read the totals, and the call returns, only after all workers finished.
C9_BarrierThenStats == [](C9_AfterAllWorkers) /\ [][C9_OwnSumsOnce]_vars

C9_Witness ==
    /\ pc = "done" /\ nthreads = 3 /\ N = 3
    /\ \A w \in Threads : wpc[w] = "joined" /\ p_ST[w] > 0

\* The generator state of a worker seeded with s after k draws.
RECURSIVE GenAt(_, _)
GenAt(s, k) == IF k = 0 THEN s ELSE NextGen(GenAt(s, k - 1))

\* The trials of the run: worker and position in the worker's stream.
AllTrials ==
    {t \in (0..(MaxThreads - 1)) \X (1..MaxTrials) :
        t[1] \in Threads /\ t[2] <= ChunkHi(t[1]) - ChunkLo(t[1])}

STOf(t) == TerminalPrice(Normal(GenAt(seed[t[1]], t[2])))
PayoffOf(t) == Payoff(STOf(t))
SqPayoffOf(t) == FMul(PayoffOf(t), PayoffOf(t))

\* Exact (unrounded) sum of a set of trial values, in no particular order.
RECURSIVE ExactST(_)
ExactST(ts) ==
    IF ts = {} THEN 0
    ELSE LET t == CHOOSE x \in ts : TRUE IN STOf(t) + ExactST(ts \ {t})

RECURSIVE ExactPayoff(_)
ExactPayoff(ts) ==
    IF ts = {} THEN 0
    ELSE LET t == CHOOSE x \in ts : TRUE IN PayoffOf(t) + ExactPayoff(ts \ {t})

RECURSIVE ExactSqPayoff(_)
ExactSqPayoff(ts) ==
    IF ts = {} THEN 0
    ELSE LET t == CHOOSE x \in ts : TRUE IN SqPayoffOf(t) + ExactSqPayoff(ts \ {t})

\* Values whose every partial sum is a number of the grid: all finite,
\* none negative, all multiples of one power of two, the total within
\* MantBits bits of it.
NoRounding(vals, total) ==
    /\ \A v \in vals : IsFinite(v) /\ v >= 0
    /\ \E e \in 0..12 :
          /\ \A v \in vals : v % Pow2(e) = 0
          /\ total < Pow2(e + MantBits)

ExactRun ==
    /\ NoRounding({STOf(t) : t \in AllTrials}, ExactST(AllTrials))
    /\ NoRounding({PayoffOf(t) : t \in AllTrials}, ExactPayoff(AllTrials))
    /\ NoRounding({SqPayoffOf(t) : t \in AllTrials}, ExactSqPayoff(AllTrials))

\* C10: for the per-trial values of a run, when no sum is rounded, the
\* totals are the plain sums of the values, and the result is the
\* statistics of those sums, for every team size, every interleaving of the
\* trials and every order in which the workers' sums are combined.
C10_OrderFree ==
    (pc \in {"stats", "done"} /\ N > 0 /\ ExactRun) =>
        /\ sum_ST = ExactST(AllTrials)
        /\ sum_payoffs = ExactPayoff(AllTrials)
        /\ sum_sq_payoffs = ExactSqPayoff(AllTrials)
        /\ pc = "done" =>
              result = Statistics(ExactPayoff(AllTrials),
                                  ExactSqPayoff(AllTrials), ExactST(AllTrials))

C10_Witness ==
    /\ pc = "done" /\ N = 3 /\ nthreads = 3 /\ ExactRun
    /\ sum_payoffs > 0
    /\ \E s \in AllTrials, t \in AllTrials : STOf(s) # STOf(t)
    /\ sum_ST = ExactST(AllTrials)

\* The states in which the code departs from C1, C2, C4, C5 and C8.
C1_Witness ==
    \E a \in Seeded, b \in Seeded : a # b /\ seed[a] = seed[b]

C2_Witness == pc = "done" /\ requested = 0 /\ result.price = NaN

C4_Witness ==
    /\ pc = "done" /\ prev.has /\ prev.inputs = Inputs
    /\ prev.nthreads = nthreads /\ prev.seed = seed
    /\ result # prev.result

C5_Witness ==
    vpc = "return69" /\ Len(prices) = 2 /\ prices[1] = prices[2] /\ vol = NaN

C8_Witness == pc = "done" /\ requested = Pow2(IntBits - 1) /\ N < 0

====
